---- MODULE Spec2Model ----
(***************************************************************************)
(* base-encryption: one-way hashing and two-way AES-GCM encryption with    *)
(* PBKDF2-derived keys (src/src/index.js, src/src/crypto-utils.js).         *)
(*                                                                         *)
(* JavaScript strings are sequences of UTF-16 code units (naturals), byte  *)
(* buffers are sequences of 0..255.  JavaScript values are records         *)
(* [t |-> type tag, v |-> payload].  A computation that may throw returns  *)
(* [ok |-> TRUE, v |-> value] or [ok |-> FALSE, v |-> thrown value].       *)
(***************************************************************************)
EXTENDS Integers, Sequences, FiniteSets, TLC

VARIABLES
  call,              \* the invocation of a public operation that is in flight
  store,             \* the record the caller kept from its last encryption
  SECURITY_LEVELS,   \* the exported preset table (index.js:19-24)
  cryptoAvailable,   \* whether the environment provides the Web Crypto API
  running            \* the invocations in flight at once, by caller

vars == <<call, store, SECURITY_LEVELS, cryptoAvailable, running>>

-----------------------------------------------------------------------------
(* JavaScript values *)

Undef == [t |-> "undefined", v |-> 0]
Null == [t |-> "null", v |-> 0]
Str(s) == [t |-> "string", v |-> s]
Bool(b) == [t |-> "boolean", v |-> b]
\* a number: k is "int" (the integer n), "frac" (n + 1/2) or "nan"
Num(k, n) == [t |-> "number", v |-> [k |-> k, n |-> n]]
Integer(n) == Num("int", n)
\* an object: cls says how it serialises; items are its elements
Obj(cls, items) == [t |-> "object", v |-> [cls |-> cls, items |-> items]]
\* a function object (for example Object.prototype.toString)
Fun == [t |-> "function", v |-> 0]
\* an options object {iterations: it, securityLevel: lvl}; Undef = property absent
Opts(it, lvl) == [t |-> "options", v |-> [iterations |-> it, securityLevel |-> lvl]]
\* an Error object, of which only the presence of .message matters
Err(msg) == [t |-> "error", v |-> msg]

Ok(x) == [ok |-> TRUE, v |-> x]
Throw(e) == [ok |-> FALSE, v |-> e]

\* ToBoolean: the values for which `!x` is true are undefined, null, "", 0, NaN, false
Truthy(x) ==
  CASE x.t = "undefined" -> FALSE
    [] x.t = "null" -> FALSE
    [] x.t = "string" -> Len(x.v) > 0
    [] x.t = "boolean" -> x.v
    [] x.t = "number" -> ~(x.v.k = "nan" \/ (x.v.k = "int" /\ x.v.n = 0))
    [] OTHER -> TRUE

-----------------------------------------------------------------------------
(* Characters used below, as UTF-16 code units *)

Digit(d) == 48 + d                     \* '0'..'9'
BOM == 65279                           \* U+FEFF
REPLACEMENT == 65533                   \* U+FFFD
HEXCHARS == <<48, 49, 50, 51, 52, 53, 54, 55, 56, 57, 97, 98, 99, 100, 101, 102>>

sFast == <<102, 97, 115, 116>>                         \* "fast"
sStandard == <<115, 116, 97, 110, 100, 97, 114, 100>>  \* "standard"
sHigh == <<104, 105, 103, 104>>                        \* "high"
sMaximum == <<109, 97, 120, 105, 109, 117, 109>>       \* "maximum"
sBogus == <<98, 111, 103, 117, 115>>                   \* "bogus"
sConstructor == <<99, 111, 110, 115, 116, 114, 117, 99, 116, 111, 114>> \* "constructor"
sToString == <<116, 111, 83, 116, 114, 105, 110, 103>> \* "toString"

-----------------------------------------------------------------------------
(* crypto-utils.js: conversions *)

\* TextEncoder.encode on the code units from index i on.  The argument is
\* first converted to a scalar-value string: a surrogate that is not part of
\* a pair becomes U+FFFD.
RECURSIVE Utf8From(_, _)
Utf8From(s, i) ==
  IF i > Len(s) THEN <<>>
  ELSE LET c == s[i] IN
    IF c < 128 THEN <<c>> \o Utf8From(s, i + 1)
    ELSE IF c < 2048 THEN <<192 + (c \div 64), 128 + (c % 64)>> \o Utf8From(s, i + 1)
    ELSE IF c >= 55296 /\ c <= 56319 /\ i < Len(s) /\ s[i + 1] >= 56320 /\ s[i + 1] <= 57343
      THEN LET cp == 65536 + (c - 55296) * 1024 + (s[i + 1] - 56320) IN
           <<240 + (cp \div 262144), 128 + ((cp \div 4096) % 64),
             128 + ((cp \div 64) % 64), 128 + (cp % 64)>> \o Utf8From(s, i + 2)
    ELSE LET u == IF c >= 55296 /\ c <= 57343 THEN REPLACEMENT ELSE c IN
           <<224 + (u \div 4096), 128 + ((u \div 64) % 64), 128 + (u % 64)>>
             \o Utf8From(s, i + 1)

\* a code point as UTF-16 code units
CodeUnits(cp) ==
  IF cp < 65536 THEN <<cp>>
  ELSE <<55296 + ((cp - 65536) \div 1024), 56320 + ((cp - 65536) % 1024)>>

\* The UTF-8 decoder of TextDecoder (not fatal): bytes from index i on, with
\* `need` continuation bytes outstanding for code point cp, the next
\* continuation byte being accepted in lo..hi.  An ill-formed sequence yields
\* U+FFFD and the offending byte is processed again.
RECURSIVE Utf8Decode(_, _, _, _, _, _)
Utf8Decode(b, i, need, cp, lo, hi) ==
  IF i > Len(b) THEN (IF need > 0 THEN <<REPLACEMENT>> ELSE <<>>)
  ELSE LET x == b[i] IN
    IF need = 0 THEN
      IF x < 128 THEN <<x>> \o Utf8Decode(b, i + 1, 0, 0, 128, 191)
      ELSE IF x >= 194 /\ x <= 223 THEN Utf8Decode(b, i + 1, 1, x % 32, 128, 191)
      ELSE IF x >= 224 /\ x <= 239 THEN
        Utf8Decode(b, i + 1, 2, x % 16,
                   IF x = 224 THEN 160 ELSE 128, IF x = 237 THEN 159 ELSE 191)
      ELSE IF x >= 240 /\ x <= 244 THEN
        Utf8Decode(b, i + 1, 3, x % 8,
                   IF x = 240 THEN 144 ELSE 128, IF x = 244 THEN 143 ELSE 191)
      ELSE <<REPLACEMENT>> \o Utf8Decode(b, i + 1, 0, 0, 128, 191)
    ELSE IF x < lo \/ x > hi THEN <<REPLACEMENT>> \o Utf8Decode(b, i, 0, 0, 128, 191)
    ELSE IF need = 1 THEN
      CodeUnits(cp * 64 + (x % 64)) \o Utf8Decode(b, i + 1, 0, 0, 128, 191)
    ELSE Utf8Decode(b, i + 1, need - 1, cp * 64 + (x % 64), 128, 191)

\* String(x) as TextEncoder.encode applies it to an argument that is not a string
RECURSIVE DecimalDigits(_)
DecimalDigits(n) ==
  IF n < 10 THEN <<Digit(n)>> ELSE DecimalDigits(n \div 10) \o <<Digit(n % 10)>>

ToStringValue(x) ==
  CASE x.t = "string" -> Ok(x.v)
    [] x.t = "undefined" -> Ok(<<>>)      \* encode() takes its default, ""
    [] x.t = "null" -> Ok(<<110, 117, 108, 108>>)
    [] x.t = "boolean" -> Ok(IF x.v THEN <<116, 114, 117, 101>> ELSE <<102, 97, 108, 115, 101>>)
    [] x.t = "number" ->
         Ok(CASE x.v.k = "nan" -> <<78, 97, 78>>
              [] x.v.k = "frac" -> DecimalDigits(x.v.n) \o <<46, 53>>
              [] OTHER -> DecimalDigits(x.v.n))
    [] OTHER -> Throw(Err("TypeError"))

stringToArrayBuffer(str) ==
  LET s == ToStringValue(str) IN
  IF s.ok THEN Ok(Utf8From(s.v, 1)) ELSE s

\* TextDecoder('utf-8') with the default ignoreBOM = false removes a leading
\* byte order mark EF BB BF from the output
arrayBufferToString(buffer) ==
  IF Len(buffer) >= 3 /\ buffer[1] = 239 /\ buffer[2] = 187 /\ buffer[3] = 191
  THEN Utf8Decode(buffer, 4, 0, 0, 128, 191)
  ELSE Utf8Decode(buffer, 1, 0, 0, 128, 191)

\* byte.toString(16).padStart(2, '0') of every byte, joined
arrayBufferToHex(buffer) ==
  [i \in 1..(2 * Len(buffer)) |->
     IF i % 2 = 1 THEN HEXCHARS[(buffer[(i + 1) \div 2] \div 16) + 1]
     ELSE HEXCHARS[(buffer[i \div 2] % 16) + 1]]

\* the characters the regular expression class \s matches
IsWhitespace(c) ==
  \/ c \in {9, 10, 11, 12, 13, 32, 160, 5760, 8232, 8233, 8239, 8287, 12288, BOM}
  \/ (c >= 8192 /\ c <= 8202)

IsHexChar(c) == (c >= 48 /\ c <= 57) \/ (c >= 97 /\ c <= 102) \/ (c >= 65 /\ c <= 70)

\* parseInt(c, 16) of one hexadecimal character
HexVal(c) == IF c <= 57 THEN c - 48 ELSE IF c >= 97 THEN c - 87 ELSE c - 55

\* bytes[i / 2] = parseInt(hex.substr(i, 2), 16)
HexPairs(h) == [i \in 1..(Len(h) \div 2) |-> HexVal(h[2 * i - 1]) * 16 + HexVal(h[2 * i])]

\* hexToArrayBuffer without the test of the characters: parseInt gives NaN for
\* a pair that starts with no hexadecimal digit, stored as 0, and the value of
\* the first digit for a pair whose second character is none
hexToArrayBuffer_Unchecked(hex) ==
  IF hex.t # "string" THEN Throw(Err("Input must be a string"))
  ELSE LET h == SelectSeq(hex.v, LAMBDA c : ~IsWhitespace(c)) IN
    IF Len(h) % 2 # 0 THEN Throw(Err("Hex string must have an even number of characters"))
    ELSE Ok([i \in 1..(Len(h) \div 2) |->
               IF ~IsHexChar(h[2 * i - 1]) THEN 0
               ELSE IF ~IsHexChar(h[2 * i]) THEN HexVal(h[2 * i - 1])
               ELSE HexVal(h[2 * i - 1]) * 16 + HexVal(h[2 * i])])

hexToArrayBuffer(hex) ==
  IF hex.t # "string" THEN Throw(Err("Input must be a string"))
  ELSE LET h == SelectSeq(hex.v, LAMBDA c : ~IsWhitespace(c)) IN
    IF Len(h) % 2 # 0 THEN Throw(Err("Hex string must have an even number of characters"))
    ELSE IF \E i \in 1..Len(h) : ~IsHexChar(h[i]) THEN Throw(Err("Invalid hexadecimal string"))
    ELSE Ok(HexPairs(h))

\* String.prototype.substring(a, b) for 0 <= a <= b, clamped to the length
Substring(s, a, b) ==
  LET lo == IF a > Len(s) THEN Len(s) ELSE a
      hi == IF b > Len(s) THEN Len(s) ELSE b
  IN SubSeq(s, lo + 1, hi)

-----------------------------------------------------------------------------
(* index.js: constants and helpers *)

PBKDF2_ITERATIONS == 600000
SALT_SIZE == 16
IV_SIZE == 12
TAG_SIZE == 16       \* tagLength: 128 bits; slice(-16), substring(56, 88)

\* the table with another count for `fast`
SecurityLevelTable_FastDoubled ==
  (sMaximum :> Integer(600000)) @@ (sHigh :> Integer(100000)) @@
  (sStandard :> Integer(10000)) @@ (sFast :> Integer(2000))

\* the object literal of index.js:19-24, by property name
SecurityLevelTable ==
  (sMaximum :> Integer(600000)) @@ (sHigh :> Integer(100000)) @@
  (sStandard :> Integer(10000)) @@ (sFast :> Integer(1000))

\* properties every object literal inherits from Object.prototype
ObjectPrototypeKeys == {sConstructor, sToString}

\* SECURITY_LEVELS[key]: an own property, else an inherited one, else undefined
GetLevel(levels, key) ==
  LET k == ToStringValue(key) IN
  IF ~k.ok THEN Undef
  ELSE IF k.v \in DOMAIN levels THEN levels[k.v]
  ELSE IF k.v \in ObjectPrototypeKeys THEN Fun
  ELSE Undef

\* index.js:90-94 and 151-155.  Reading a property of null throws a TypeError.
ResolveIterations(options, levels) ==
  IF options.t = "null" THEN Throw(Err("TypeError"))
  ELSE IF options.v.iterations.t = "number" THEN Ok(options.v.iterations)
  ELSE IF Truthy(options.v.securityLevel) /\ Truthy(GetLevel(levels, options.v.securityLevel))
    THEN Ok(GetLevel(levels, options.v.securityLevel))
  ELSE Ok(Integer(PBKDF2_ITERATIONS))

\* the default parameter `options = {}` replaces undefined only
DefaultOptions(options) == IF options.t = "undefined" THEN Opts(Undef, Undef) ELSE options

isObject(obj) == Truthy(obj) /\ obj.t = "object"

RECURSIVE JoinItems(_, _)
\* items as decimal numbers separated by commas; with keys, as "a":1,"b":2
JoinItems(items, keyed) ==
  IF items = <<>> THEN <<>>
  ELSE LET n == Len(items)
           one == (IF keyed THEN <<34, 96 + n, 34, 58>> ELSE <<>>) \o DecimalDigits(items[n])
       IN IF n = 1 THEN one ELSE JoinItems(SubSeq(items, 1, n - 1), keyed) \o <<44>> \o one

\* JSON.stringify of the objects of the model: an array of naturals, a plain
\* object {a: n1, b: n2, ...}, an object with a cycle (TypeError), an object
\* whose toJSON throws null, and an object whose toJSON returns undefined
JSONstringify(obj) ==
  CASE obj.v.cls = "array" -> Ok(Str(<<91>> \o JoinItems(obj.v.items, FALSE) \o <<93>>))
    [] obj.v.cls = "plain" -> Ok(Str(<<123>> \o JoinItems(obj.v.items, TRUE) \o <<125>>))
    [] obj.v.cls = "circular" -> Throw(Err("TypeError"))
    [] obj.v.cls = "toJSONThrowsNull" -> Throw(Null)
    [] OTHER -> Ok(Undef)

objToString(obj) == IF isObject(obj) THEN JSONstringify(obj) ELSE Ok(obj)

-----------------------------------------------------------------------------
(* The platform's Web Crypto provider.  PBKDF2, AES-GCM and the digests are *)
(* not part of the repository; they are modelled as ideal primitives: a     *)
(* derived key is determined by exactly (HMAC key of the passphrase bytes,  *)
(* salt, iterations), and tags and digests are keyed checksums that         *)
(* distinguish the inputs of the model.                                     *)

getCrypto(avail) ==
  IF avail THEN Ok(TRUE) ELSE Throw(Err("Web Crypto API not available in this environment"))

\* the sum of (bytes[i] + 1) * (a weight of position i) over lo..hi, modulo 65521
RECURSIVE WeightedSum(_, _, _, _)
WeightedSum(bytes, m, lo, hi) ==
  IF lo > hi THEN 0
  ELSE IF lo = hi THEN ((bytes[lo] + 1) * (1 + ((lo * m) % 8191))) % 65521
  ELSE LET mid == (lo + hi) \div 2 IN
       (WeightedSum(bytes, m, lo, mid) + WeightedSum(bytes, m, mid + 1, hi)) % 65521

\* n bytes spread from two checksums of the input
Checksum(bytes, n) ==
  LET a == (WeightedSum(bytes, 31, 1, Len(bytes)) + 7 * Len(bytes)) % 65521
      b == (WeightedSum(bytes, 127, 1, Len(bytes)) + 11 * Len(bytes)) % 65521
  IN [i \in 1..n |->
        CASE i = 1 -> a \div 256
          [] i = 2 -> a % 256
          [] i = 3 -> b \div 256
          [] i = 4 -> b % 256
          [] OTHER -> (a + i * b + i * i) % 256]

\* crypto.subtle.importKey('raw', bytes, 'PBKDF2', ...)
SubtleImportKey(bytes) == bytes

\* HMAC pads a key shorter than its block with zero bytes, so that key bytes
\* differing only in trailing zero bytes are the same HMAC key
RECURSIVE HmacKey(_)
HmacKey(bytes) ==
  IF bytes # <<>> /\ bytes[Len(bytes)] = 0 THEN HmacKey(SubSeq(bytes, 1, Len(bytes) - 1))
  ELSE bytes

\* crypto.subtle.deriveKey({PBKDF2, salt, iterations, SHA-256}, material, AES-GCM 256):
\* PBKDF2 uses the passphrase bytes as the key of HMAC-SHA-256
SubtleDeriveKey(material, salt, iterations) ==
  [material |-> HmacKey(material), salt |-> salt, iterations |-> iterations]

KeyBytes(key, iv) ==
  key.material \o <<256>> \o key.salt \o DecimalDigits(key.iterations) \o <<256>> \o iv

KeyStream(key, iv, i) ==
  (WeightedSum(KeyBytes(key, iv), 53, 1, Len(KeyBytes(key, iv))) + 7 * i) % 256

GcmTag(key, iv, ciphertext) == Checksum(KeyBytes(key, iv) \o <<256>> \o ciphertext, TAG_SIZE)

\* crypto.subtle.encrypt(AES-GCM): the ciphertext followed by the tag
SubtleEncrypt(key, iv, plain) ==
  LET ct == [i \in 1..Len(plain) |-> (plain[i] + KeyStream(key, iv, i)) % 256]
  IN ct \o GcmTag(key, iv, ct)

\* crypto.subtle.decrypt(AES-GCM): verifies the tag, then decrypts; a failed
\* verification (or data shorter than a tag) rejects with an OperationError
SubtleDecrypt(key, iv, data) ==
  IF Len(data) < TAG_SIZE THEN Throw(Err("OperationError"))
  ELSE LET n == Len(data) - TAG_SIZE
           ct == SubSeq(data, 1, n)
       IN IF SubSeq(data, n + 1, Len(data)) # GcmTag(key, iv, ct)
          THEN Throw(Err("OperationError"))
          ELSE Ok([i \in 1..n |-> (ct[i] + 256 - KeyStream(key, iv, i)) % 256])

\* crypto.subtle.digest: 32 bytes for SHA-256
SubtleDigest(bytes) == Checksum(<<1>> \o bytes, 32)

\* CryptoJS.MD5(data).toString(Hex): 16 bytes in hex.  CryptoJS converts the
\* string with encodeURIComponent, which throws a URIError on a surrogate
\* that is not part of a pair.
WellFormed(s) ==
  \A i \in 1..Len(s) :
    /\ (s[i] >= 55296 /\ s[i] <= 56319) => (i < Len(s) /\ s[i + 1] >= 56320 /\ s[i + 1] <= 57343)
    /\ (s[i] >= 56320 /\ s[i] <= 57343) => (i > 1 /\ s[i - 1] >= 55296 /\ s[i - 1] <= 56319)

CryptoJSMD5(s) ==
  IF ~WellFormed(s) THEN Throw(Err("URIError"))
  ELSE Ok(Str(arrayBufferToHex(Checksum(<<2>> \o Utf8From(s, 1), 16))))

\* the callers that invoke operations without waiting for one another
NumCalls == 2
Slots == 1..NumCalls

\* the random source: NumSalts (NumIVs) values crypto.getRandomValues can give
NumSalts == 2
NumIVs == 2
RandomBytes(k, n) == [i \in 1..n |-> (k * 83 + i * 29) % 256]
Salts == {RandomBytes(k, SALT_SIZE) : k \in 1..NumSalts}
IVs == {RandomBytes(k + 100, IV_SIZE) : k \in 1..NumIVs}

-----------------------------------------------------------------------------
(* An invocation of a public operation: its arguments, its position (pc),   *)
(* its local variables, how it settled, and what it asked of the platform   *)
(* (prims: the provider calls made, rand: the random bytes drawn).          *)

NoLocals ==
  [iterations |-> Undef, plaintext |-> Undef, plaintextBuffer |-> <<>>, salt |-> <<>>,
   iv |-> <<>>, authTag |-> <<>>, ciphertext |-> <<>>, passphraseBuffer |-> <<>>,
   material |-> <<>>, key |-> <<>>, pending |-> Ok(Undef)]

NewCall(op, args) ==
  [op |-> op, args |-> args, pc |-> "start", loc |-> NoLocals, ret |-> Undef,
   outcome |-> "pending", prims |-> <<>>, rand |-> 0]

\* `return v` from the async function: its promise is fulfilled with v
Return(c, v) == [c EXCEPT !.pc = "done", !.outcome = "fulfilled", !.ret = v]

\* a handler that returns what it caught
Catch_ReturnsError(c, error, sentinel) ==
  [c EXCEPT !.pc = "done", !.outcome = "fulfilled", !.ret = error]

\* catch (error) { console.error('...', error.message); return sentinel; }
\* Reading .message of null or undefined throws a TypeError out of the handler,
\* which rejects the promise of the async function.
Catch(c, error, sentinel) ==
  IF error.t \in {"null", "undefined"}
  THEN [c EXCEPT !.pc = "done", !.outcome = "rejected", !.ret = Err("TypeError")]
  ELSE Return(c, sentinel)

\* `await` of a provider call that has been started
AwaitPrimitive(c, prim) == [c EXCEPT !.pc = prim, !.prims = Append(@, prim)]

\* `await` of a promise that is already settled with r
AwaitSettled(c, r) == [c EXCEPT !.pc = "settled", !.loc.pending = r]

\* generateRandomBytes returning its new array as it is, never filled
generateRandomBytes_NotFilled(length, avail, bytes) ==
  IF length <= 0 THEN Throw(Err("Length must be a positive integer"))
  ELSE IF ~getCrypto(avail).ok THEN getCrypto(avail)
  ELSE Ok([i \in 1..length |-> 0])

\* generateRandomBytes(length), crypto-utils.js:44-53, the provider giving `bytes`
generateRandomBytes(length, avail, bytes) ==
  IF length <= 0 THEN Throw(Err("Length must be a positive integer"))
  ELSE IF ~getCrypto(avail).ok THEN getCrypto(avail)
  ELSE Ok(SubSeq(bytes, 1, length))

\* deriveKey without its test of the salt
deriveKeyStart_SaltUnchecked(passphrase, salt, iterations, avail) ==
  IF passphrase.t # "string" \/ Len(passphrase.v) = 0
    THEN Throw(Err("Passphrase must be a non-empty string"))
  ELSE IF ~(iterations.t = "number" /\ iterations.v.k = "int" /\ iterations.v.n >= 1)
    THEN Throw(Err("Iterations must be a positive integer"))
  ELSE IF ~getCrypto(avail).ok THEN getCrypto(avail)
  ELSE stringToArrayBuffer(passphrase)

\* deriveKey up to its first await (crypto-utils.js:125-147): the checks, then
\* the bytes handed to importKey.  salt is always a Uint8Array in index.js.
deriveKeyStart(passphrase, salt, iterations, avail) ==
  IF passphrase.t # "string" \/ Len(passphrase.v) = 0
    THEN Throw(Err("Passphrase must be a non-empty string"))
  ELSE IF Len(salt) # 16
    THEN Throw(Err("Salt must be a Uint8Array of 16 bytes"))
  ELSE IF ~(iterations.t = "number" /\ iterations.v.k = "int" /\ iterations.v.n >= 1)
    THEN Throw(Err("Iterations must be a positive integer"))
  ELSE IF ~getCrypto(avail).ok THEN getCrypto(avail)
  ELSE stringToArrayBuffer(passphrase)

\* the call of deriveKey from twoWayEncrypt/twoWayDecrypt and the await of it
AwaitDeriveKey(c, passphrase, salt, iterations, avail) ==
  LET d == deriveKeyStart(passphrase, salt, iterations, avail) IN
  IF d.ok THEN AwaitPrimitive([c EXCEPT !.loc.passphraseBuffer = d.v], "importKey")
  ELSE AwaitSettled(c, d)

\* importKey has resolved: deriveKey goes on to crypto.subtle.deriveKey
deriveKeyImported(c) ==
  AwaitPrimitive([c EXCEPT !.loc.material = SubtleImportKey(c.loc.passphraseBuffer)], "deriveKey")

\* the guard without its test of the passphrase
NothingToDo_DataOnly(data, passphrase) == ~Truthy(data)

\* index.js:84 and 145: `if (!data || !passphrase) return null`
NothingToDo(data, passphrase) == ~Truthy(data) \/ ~Truthy(passphrase)

\* index.js:83-105: twoWayEncrypt up to its first await
twoWayEncryptStart(c, levels, avail, saltBytes, ivBytes) ==
  LET data == c.args[1]
      passphrase == c.args[2]
      options == DefaultOptions(c.args[3])
  IN
  IF NothingToDo(data, passphrase) THEN Return(c, Null)
  ELSE IF ~getCrypto(avail).ok THEN Catch(c, getCrypto(avail).v, Null)
  ELSE LET iterations == ResolveIterations(options, levels) IN
  IF ~iterations.ok THEN Catch(c, iterations.v, Null)
  ELSE LET plaintext == objToString(data) IN
  IF ~plaintext.ok THEN Catch(c, plaintext.v, Null)
  ELSE LET plaintextBuffer == stringToArrayBuffer(plaintext.v) IN
  IF ~plaintextBuffer.ok THEN Catch(c, plaintextBuffer.v, Null)
  ELSE LET salt == generateRandomBytes(SALT_SIZE, avail, saltBytes)
           iv == generateRandomBytes(IV_SIZE, avail, ivBytes)
       IN
  IF ~salt.ok THEN Catch(c, salt.v, Null)
  ELSE IF ~iv.ok THEN Catch(c, iv.v, Null)
  ELSE AwaitDeriveKey(
         [c EXCEPT !.loc.iterations = iterations.v, !.loc.plaintext = plaintext.v,
                   !.loc.plaintextBuffer = plaintextBuffer.v, !.loc.salt = salt.v,
                   !.loc.iv = iv.v, !.rand = SALT_SIZE + IV_SIZE,
                   !.prims = <<"getRandomValues", "getRandomValues">>],
         passphrase, salt.v, iterations.v, avail)

\* deriveKey deriving with its default count instead of its argument
deriveKeyDerived_DefaultCount(material, salt, iterations) ==
  SubtleDeriveKey(material, salt, 600000)

\* crypto-utils.js:150-166: the key deriveKey returns
deriveKeyDerived(material, salt, iterations) == SubtleDeriveKey(material, salt, iterations)

\* twoWayEncrypt continuing after deriveKey with the options as they are then
twoWayEncryptDerived_ReadsOptionsLate(c) ==
  AwaitPrimitive(
    [c EXCEPT !.loc.key =
       deriveKeyDerived(c.loc.material, c.loc.salt,
                        ResolveIterations(DefaultOptions(c.args[3]), SecurityLevelTable).v.v.n)],
    "encrypt")

\* index.js:105-114: the key is derived; crypto.subtle.encrypt is called
twoWayEncryptDerived(c) ==
  AwaitPrimitive(
    [c EXCEPT !.loc.key = deriveKeyDerived(c.loc.material, c.loc.salt, c.loc.iterations.v.n)],
    "encrypt")

\* the record with the tag after the ciphertext, as AES-GCM returns them
FormatRecord_TagLast(salt, iv, authTag, ciphertext) ==
  arrayBufferToHex(salt) \o arrayBufferToHex(iv) \o arrayBufferToHex(ciphertext)
    \o arrayBufferToHex(authTag)

\* index.js:122-128: salt + iv + authTag + ciphertext, all in hex
FormatRecord(salt, iv, authTag, ciphertext) ==
  arrayBufferToHex(salt) \o arrayBufferToHex(iv) \o arrayBufferToHex(authTag)
    \o arrayBufferToHex(ciphertext)

\* twoWayEncrypt with `salt` declared outside the function: the record is put
\* together with the salt of a later call that is still in flight
twoWayEncryptEncrypted_SharedSalt(c) ==
  LET encrypted == SubtleEncrypt(c.loc.key, c.loc.iv, c.loc.plaintextBuffer)
      n == Len(encrypted)
      ciphertext == SubSeq(encrypted, 1, n - 16)
      authTag == SubSeq(encrypted, n - 15, n)
      later == { j \in Slots : /\ running[j].pc \in {"importKey", "deriveKey", "encrypt"}
                               /\ running[j].op = "twoWayEncrypt"
                               /\ running[j].loc.salt # c.loc.salt }
      salt == IF later = {} THEN c.loc.salt ELSE running[CHOOSE j \in later : TRUE].loc.salt
  IN Return([c EXCEPT !.loc.authTag = authTag, !.loc.ciphertext = ciphertext],
            Str(FormatRecord(salt, c.loc.iv, authTag, ciphertext)))

\* index.js:114-128: the tag is split off and the record is put together
twoWayEncryptEncrypted(c) ==
  LET encrypted == SubtleEncrypt(c.loc.key, c.loc.iv, c.loc.plaintextBuffer)
      n == Len(encrypted)
      ciphertext == SubSeq(encrypted, 1, n - 16)    \* encrypted.slice(0, -16)
      authTag == SubSeq(encrypted, n - 15, n)       \* encrypted.slice(-16)
  IN Return([c EXCEPT !.loc.authTag = authTag, !.loc.ciphertext = ciphertext],
            Str(FormatRecord(c.loc.salt, c.loc.iv, authTag, ciphertext)))

\* index.js:144-170: twoWayDecrypt up to its first await
twoWayDecryptStart(c, levels, avail) ==
  LET cypher == c.args[1]
      passphrase == c.args[2]
      options == DefaultOptions(c.args[3])
  IN
  IF NothingToDo(cypher, passphrase) THEN Return(c, Null)
  ELSE IF ~getCrypto(avail).ok THEN Catch(c, getCrypto(avail).v, Null)
  ELSE LET iterations == ResolveIterations(options, levels) IN
  IF ~iterations.ok THEN Catch(c, iterations.v, Null)
  ELSE IF cypher.t # "string" THEN Catch(c, Err("TypeError"), Null)  \* no substring method
  ELSE LET salt == hexToArrayBuffer(Str(Substring(cypher.v, 0, 32)))
           iv == hexToArrayBuffer(Str(Substring(cypher.v, 32, 56)))
           authTag == hexToArrayBuffer(Str(Substring(cypher.v, 56, 88)))
           ciphertext == hexToArrayBuffer(Str(Substring(cypher.v, 88, Len(cypher.v))))
       IN
  IF ~salt.ok THEN Catch(c, salt.v, Null)
  ELSE IF ~iv.ok THEN Catch(c, iv.v, Null)
  ELSE IF ~authTag.ok THEN Catch(c, authTag.v, Null)
  ELSE IF ~ciphertext.ok THEN Catch(c, ciphertext.v, Null)
  ELSE AwaitDeriveKey(
         [c EXCEPT !.loc.iterations = iterations.v, !.loc.salt = salt.v, !.loc.iv = iv.v,
                   !.loc.authTag = authTag.v, !.loc.ciphertext = ciphertext.v],
         passphrase, salt.v, iterations.v, avail)

\* index.js:170-184: the key is derived; ciphertext and tag are joined and
\* crypto.subtle.decrypt is called
twoWayDecryptDerived(c) ==
  AwaitPrimitive(
    [c EXCEPT !.loc.key = deriveKeyDerived(c.loc.material, c.loc.salt, c.loc.iterations.v.n)],
    "decrypt")

\* twoWayDecrypt returning whatever text it decoded
twoWayDecryptDecrypted_ReturnsEmpty(c) ==
  LET decryptedBuffer == SubtleDecrypt(c.loc.key, c.loc.iv, c.loc.ciphertext \o c.loc.authTag) IN
  IF ~decryptedBuffer.ok THEN Catch(c, decryptedBuffer.v, Null)
  ELSE LET decrypted == arrayBufferToString(decryptedBuffer.v) IN
    Return([c EXCEPT !.loc.plaintext = Str(decrypted)], Str(decrypted))

\* index.js:184-195: the outcome of crypto.subtle.decrypt
twoWayDecryptDecrypted(c) ==
  LET decryptedBuffer == SubtleDecrypt(c.loc.key, c.loc.iv, c.loc.ciphertext \o c.loc.authTag) IN
  IF ~decryptedBuffer.ok THEN Catch(c, decryptedBuffer.v, Null)
  ELSE LET decrypted == arrayBufferToString(decryptedBuffer.v) IN
    IF Len(decrypted) = 0
    THEN Catch(c, Err("Decryption failed: Invalid passphrase or corrupted data."), Null)
    ELSE Return([c EXCEPT !.loc.plaintext = Str(decrypted)], Str(decrypted))

\* the await of deriveKey ends with the rejection it was settled with
twoWaySettled(c) == Catch(c, c.loc.pending.v, Null)

\* crypto-utils.js:176-195: hashData up to its first await: a settled
\* outcome, or the bytes handed to crypto.subtle.digest
hashDataStart(data, algorithm, avail) ==
  IF data.t # "string" THEN [await |-> FALSE, r |-> Throw(Err("Data must be a string"))]
  ELSE IF algorithm = "MD5" THEN [await |-> FALSE, r |-> CryptoJSMD5(data.v)]
  ELSE IF ~getCrypto(avail).ok THEN [await |-> FALSE, r |-> getCrypto(avail)]
  ELSE [await |-> TRUE, r |-> stringToArrayBuffer(data)]

\* index.js:44-46: the body of oneWayEncrypt(data, sha) for data that passed
\* the guard, up to the await of hashData
oneWayEncryptBody(c, data, sha, avail) ==
  LET algorithm == IF Truthy(IF sha.t = "undefined" THEN Bool(TRUE) ELSE sha)
                   THEN "SHA-256" ELSE "MD5"
      h == hashDataStart(data, algorithm, avail)
  IN IF h.await
     THEN AwaitPrimitive([c EXCEPT !.loc.plaintextBuffer = h.r.v], "digest")
     ELSE AwaitSettled([c EXCEPT !.prims = IF algorithm = "MD5" /\ data.t = "string"
                                             THEN <<"MD5">> ELSE <<>>], h.r)

\* index.js:41-46
oneWayEncryptStart(c, avail) ==
  IF ~Truthy(c.args[1]) THEN Return(c, Undef)
  ELSE oneWayEncryptBody(c, c.args[1], c.args[2], avail)

\* oneWayCompare with a guard that tests the hash only
oneWayCompareStart_CypherOnly(c, avail) ==
  IF ~Truthy(c.args[1]) THEN Return(c, c.args[1])
  ELSE oneWayEncryptBody(c, c.args[2], c.args[3], avail)

\* index.js:61-65: oneWayCompare runs oneWayEncrypt(compare, sha) inline up to
\* its await
oneWayCompareStart(c, avail) ==
  IF ~Truthy(c.args[1]) \/ ~Truthy(c.args[2]) THEN Return(c, c.args[1])
  ELSE oneWayEncryptBody(c, c.args[2], c.args[3], avail)

\* index.js:46-51 and 65-70: hashData has settled with r
oneWaySettled(c, r) ==
  LET inner == IF r.ok THEN Return(c, r.v) ELSE Catch(c, r.v, Undef) IN
  IF c.op = "oneWayEncrypt" THEN inner
  ELSE IF inner.outcome = "rejected" THEN Return(c, Bool(FALSE))
  ELSE Return(c, Bool(c.args[1] = inner.ret))

\* crypto.subtle.digest has resolved: hashData returns the digest in hex
oneWayDigested(c) ==
  oneWaySettled(c, Ok(Str(arrayBufferToHex(SubtleDigest(c.loc.plaintextBuffer)))))

-----------------------------------------------------------------------------
(* Actions.  A caller invokes one operation at a time with arguments from   *)
(* the given sets; the provider's promises then resolve one by one.  The    *)
(* caller keeps the finished call of its last successful encryption in      *)
(* `store` to decrypt its record, and drops it when it starts another       *)
(* encryption or a hash.                                                    *)

Idle == call.pc = "idle"

\* whether the caller holds a record (a digest)
HasRecord == IF store = Null THEN FALSE ELSE store.op = "twoWayEncrypt"
HasDigest == IF store = Null THEN FALSE ELSE store.op = "oneWayEncrypt"

InvokeTwoWayEncrypt(D, P, O) ==
  /\ Idle /\ store = Null
  /\ \E data \in D, passphrase \in P, options \in O, salt \in Salts, iv \in IVs :
       call' = twoWayEncryptStart(NewCall("twoWayEncrypt", <<data, passphrase, options>>),
                                  SECURITY_LEVELS, cryptoAvailable, salt, iv)
  /\ UNCHANGED <<store, SECURITY_LEVELS, cryptoAvailable, running>>

\* A: the argument lists <<cypher, passphrase, options>> to choose from
InvokeTwoWayDecrypt(A) ==
  /\ Idle
  /\ \E args \in A :
       call' = twoWayDecryptStart(NewCall("twoWayDecrypt", args),
                                  SECURITY_LEVELS, cryptoAvailable)
  /\ UNCHANGED <<store, SECURITY_LEVELS, cryptoAvailable, running>>

InvokeOneWayEncrypt(D, S) ==
  /\ Idle /\ store = Null
  /\ \E data \in D, sha \in S :
       call' = oneWayEncryptStart(NewCall("oneWayEncrypt", <<data, sha>>), cryptoAvailable)
  /\ UNCHANGED <<store, SECURITY_LEVELS, cryptoAvailable, running>>

InvokeOneWayCompare(H, D, S) ==
  /\ Idle /\ ~HasRecord
  /\ \E cypher \in H, compare \in D, sha \in S :
       call' = oneWayCompareStart(NewCall("oneWayCompare", <<cypher, compare, sha>>),
                                  cryptoAvailable)
  /\ UNCHANGED <<store, SECURITY_LEVELS, cryptoAvailable, running>>

\* the promise of the call has settled: the caller takes the outcome, and
\* keeps a call that gave it a record, and a oneWayEncrypt with what it gave
\* (a digest or undefined)
Kept(c) ==
  /\ c.outcome = "fulfilled"
  /\ \/ c.op = "twoWayEncrypt" /\ c.ret.t = "string"
     \/ c.op = "oneWayEncrypt"

TakeResult ==
  /\ call.pc = "done"
  /\ call' = [pc |-> "idle"]
  /\ store' = IF Kept(call) THEN call ELSE store
  /\ UNCHANGED <<SECURITY_LEVELS, cryptoAvailable, running>>

Forget ==
  /\ Idle /\ store # Null
  /\ store' = Null
  /\ UNCHANGED <<call, SECURITY_LEVELS, cryptoAvailable, running>>

ImportKeyResolves ==
  /\ call.pc = "importKey"
  /\ call' = deriveKeyImported(call)
  /\ UNCHANGED <<store, SECURITY_LEVELS, cryptoAvailable, running>>

DeriveKeyResolves ==
  /\ call.pc = "deriveKey"
  /\ call' = IF call.op = "twoWayEncrypt" THEN twoWayEncryptDerived(call)
             ELSE twoWayDecryptDerived(call)
  /\ UNCHANGED <<store, SECURITY_LEVELS, cryptoAvailable, running>>

EncryptResolves ==
  /\ call.pc = "encrypt"
  /\ call' = twoWayEncryptEncrypted(call)
  /\ UNCHANGED <<store, SECURITY_LEVELS, cryptoAvailable, running>>

DecryptSettles ==
  /\ call.pc = "decrypt"
  /\ call' = twoWayDecryptDecrypted(call)
  /\ UNCHANGED <<store, SECURITY_LEVELS, cryptoAvailable, running>>

DigestResolves ==
  /\ call.pc = "digest"
  /\ call' = oneWayDigested(call)
  /\ UNCHANGED <<store, SECURITY_LEVELS, cryptoAvailable, running>>

SettledResumes ==
  /\ call.pc = "settled"
  /\ call' = IF call.op \in {"twoWayEncrypt", "twoWayDecrypt"} THEN twoWaySettled(call)
             ELSE oneWaySettled(call, call.loc.pending)
  /\ UNCHANGED <<store, SECURITY_LEVELS, cryptoAvailable, running>>

Resume ==
  \/ ImportKeyResolves
  \/ DeriveKeyResolves
  \/ EncryptResolves
  \/ DecryptSettles
  \/ DigestResolves
  \/ SettledResumes

-----------------------------------------------------------------------------
(* The arguments callers pass *)

sHi == <<104, 105>>                    \* "hi"
sPw == <<112, 119>>                    \* "pw"
sPwNul == <<112, 119, 0>>              \* "pw" then U+0000
sBomH == <<BOM, 104>>                  \* U+FEFF then "h"
sHighSurrogate == <<55296>>            \* U+D800 alone
sLowSurrogate == <<56320>>             \* U+DC00 alone
s5000 == <<53, 48, 48, 48>>            \* "5000"

DataValues ==
  { Undef, Null, Str(<<>>), Integer(0), Integer(5),
    Str(sHi), Str(sBomH), Str(<<BOM>>), Str(sHighSurrogate),
    Obj("array", <<>>), Obj("plain", <<1, 2>>),
    Obj("circular", <<>>), Obj("toJSONThrowsNull", <<>>), Obj("toJSONUndefined", <<>>) }

Passphrases ==
  { Null, Str(<<>>), Integer(7),
    Str(sPw), Str(sPwNul), Str(sHighSurrogate), Str(sLowSurrogate) }

Level(name) == Opts(Undef, Str(name))
Iterations(n) == Opts(Integer(n), Undef)

OptionValues ==
  { Undef, Null, Opts(Undef, Undef),
    Level(sFast), Level(sStandard), Level(sHigh), Level(sMaximum),
    Level(sBogus), Level(sConstructor), Opts(Undef, Integer(5)),
    Iterations(5000), Opts(Integer(5000), Str(sFast)), Opts(Str(s5000), Str(sFast)),
    Iterations(0), Iterations(-1), Opts(Num("nan", 0), Str(sFast)),
    Opts(Num("frac", 1), Undef) }

ShaValues == { Undef, Bool(TRUE), Bool(FALSE) }

Truncated(s, n) == SubSeq(s, 1, Len(s) - n)

\* what a caller hands to twoWayDecrypt in place of the record it kept: the
\* record cut short or extended or with white space in it, and values that
\* are no record at all
BrokenRecords(record) ==
  { Null, Str(<<>>), Integer(5), Str(sHi),
    Str(Truncated(record, 1)), Str(Truncated(record, 2)),
    Str(SubSeq(record, 1, 40)), Str(record \o <<48, 48>>),
    Str(record \o <<10>>),                       \* the record and a line feed
    Str(SubSeq(record, 1, 56) \o <<32, 32>> \o SubSeq(record, 59, Len(record))
          \o SubSeq(record, 57, 58)) }           \* first tag byte moved to the end

\* the options a caller decrypts with: those it encrypted with, and others
DecryptOptions ==
  { Undef, Null, Level(sFast), Level(sMaximum), Level(sConstructor), Iterations(5000),
    Opts(Integer(0), Str(sFast)) }
    \cup { store.args[3] }

\* twoWayDecrypt of the kept record with any passphrase and options, and of a
\* broken record with the passphrase and options of the encryption
DecryptArguments ==
  IF ~HasRecord THEN {}
  ELSE { <<store.ret, p, o>> : p \in Passphrases, o \in DecryptOptions }
         \cup { <<c, store.args[2], store.args[3]>> : c \in BrokenRecords(store.ret.v) }

HashValues == { Undef, Str(<<>>), Str(sHi) } \cup (IF HasDigest THEN { store.ret } ELSE {})

-----------------------------------------------------------------------------
Init ==
  /\ call = [pc |-> "idle"]
  /\ store = Null
  /\ SECURITY_LEVELS = SecurityLevelTable
  /\ cryptoAvailable \in BOOLEAN
  /\ running = [i \in Slots |-> [pc |-> "idle"]]

Next ==
  \/ InvokeTwoWayEncrypt(DataValues, Passphrases, OptionValues)
  \/ InvokeTwoWayDecrypt(DecryptArguments)
  \/ InvokeOneWayEncrypt(DataValues, ShaValues)
  \/ InvokeOneWayCompare(HashValues, DataValues, ShaValues)
  \/ Resume
  \/ TakeResult
  \/ Forget

Spec == Init /\ [][Next]_vars

-----------------------------------------------------------------------------
(* Tampering: a caller encrypts one text and decrypts the record with one   *)
(* character replaced.                                                      *)

TamperChars == {48, 55, 97, 102, 65, 70, 71, 32, 10}   \* 0 7 a f A F G space newline

\* the upper-case form of a lower-case letter
UpperCase(ch) == IF ch >= 97 /\ ch <= 122 THEN ch - 32 ELSE ch

\* every record that differs from `record` in exactly one character
Tampered(record) ==
  UNION { { [record EXCEPT ![i] = ch] : ch \in TamperChars \cup {UpperCase(record[i])} } :
            i \in 1..Len(record) }
    \ {record}

TamperArguments ==
  IF ~HasRecord THEN {}
  ELSE { <<Str(r), store.args[2], store.args[3]>> : r \in Tampered(store.ret.v) \cup {store.ret.v} }

NextTamper ==
  \/ InvokeTwoWayEncrypt({Str(sHi)}, {Str(sPw), Integer(7)}, {Undef, Level(sFast)})
  \/ InvokeTwoWayDecrypt(TamperArguments)
  \/ ImportKeyResolves
  \/ DeriveKeyResolves
  \/ EncryptResolves
  \/ DecryptSettles
  \/ SettledResumes
  \/ TakeResult
  \/ Forget

SpecTamper == Init /\ [][NextTamper]_vars

-----------------------------------------------------------------------------
(* Concurrency: callers invoke operations without waiting for one another.  *)
(* An async function runs to its first await when it is called and goes on  *)
(* when the promise it awaits settles; the steps of the invocations in      *)
(* flight interleave in any order.                                          *)

\* the k-th answer of the random source to a call: a salt and an IV
Draws == { <<RandomBytes(k, SALT_SIZE), RandomBytes(k + 100, IV_SIZE)>> : k \in 1..NumSalts }

NoDraw == <<<<>>, <<>>>>

ConcurrentData == { Str(sHi), Str(<<BOM>>) }

\* a finished call of `op` in some slot
Finished_(i, op) == running[i].pc = "done" /\ running[i].op = op

\* the records and the digests that finished calls have returned
RecordsAtHand ==
  { running[j].ret : j \in {k \in Slots : Finished_(k, "twoWayEncrypt")} } \ {Null}
DigestsAtHand ==
  { running[j].ret : j \in {k \in Slots : Finished_(k, "oneWayEncrypt")} } \cup {Str(<<>>)}

\* the call an invocation becomes when it is made: it runs to its first await
StartCall(op, args, levels, avail, draw) ==
  CASE op = "twoWayEncrypt" ->
         twoWayEncryptStart(NewCall(op, args), levels, avail, draw[1], draw[2])
    [] op = "twoWayDecrypt" -> twoWayDecryptStart(NewCall(op, args), levels, avail)
    [] op = "oneWayEncrypt" -> oneWayEncryptStart(NewCall(op, args), avail)
    [] op = "oneWayCompare" -> oneWayCompareStart(NewCall(op, args), avail)

\* the continuation of a suspended call when what it awaits has settled
StepCall(c) ==
  CASE c.pc = "importKey" -> deriveKeyImported(c)
    [] c.pc = "deriveKey" -> IF c.op = "twoWayEncrypt" THEN twoWayEncryptDerived(c)
                             ELSE twoWayDecryptDerived(c)
    [] c.pc = "encrypt" -> twoWayEncryptEncrypted(c)
    [] c.pc = "decrypt" -> twoWayDecryptDecrypted(c)
    [] c.pc = "digest" -> oneWayDigested(c)
    [] c.pc = "settled" -> IF c.op \in {"twoWayEncrypt", "twoWayDecrypt"} THEN twoWaySettled(c)
                           ELSE oneWaySettled(c, c.loc.pending)

\* slot i holds c from now on; nothing else changes
Becomes(i, c) ==
  /\ running' = [running EXCEPT ![i] = c]
  /\ UNCHANGED <<call, store, SECURITY_LEVELS, cryptoAvailable>>

ConcurrentTwoWayEncrypt ==
  \E i \in Slots, data \in ConcurrentData, draw \in Draws :
    /\ running[i].pc = "idle"
    /\ Becomes(i, StartCall("twoWayEncrypt", <<data, Str(sPw), Level(sFast)>>,
                            SECURITY_LEVELS, cryptoAvailable, draw))

ConcurrentTwoWayDecrypt ==
  \E i \in Slots, record \in RecordsAtHand :
    /\ running[i].pc = "idle"
    /\ Becomes(i, StartCall("twoWayDecrypt", <<record, Str(sPw), Level(sFast)>>,
                            SECURITY_LEVELS, cryptoAvailable, NoDraw))

ConcurrentOneWayEncrypt ==
  \E i \in Slots :
    /\ running[i].pc = "idle"
    /\ Becomes(i, StartCall("oneWayEncrypt", <<Str(sHi), Bool(TRUE)>>,
                            SECURITY_LEVELS, cryptoAvailable, NoDraw))

ConcurrentOneWayCompare ==
  \E i \in Slots, cypher \in DigestsAtHand :
    /\ running[i].pc = "idle"
    /\ Becomes(i, StartCall("oneWayCompare", <<cypher, Str(sHi), Bool(TRUE)>>,
                            SECURITY_LEVELS, cryptoAvailable, NoDraw))

\* the promise a call awaits settles and the call goes on
ConcurrentImportKeyResolves ==
  \E i \in Slots : running[i].pc = "importKey" /\ Becomes(i, StepCall(running[i]))

ConcurrentDeriveKeyResolves ==
  \E i \in Slots : running[i].pc = "deriveKey" /\ Becomes(i, StepCall(running[i]))

ConcurrentEncryptResolves ==
  \E i \in Slots : running[i].pc = "encrypt" /\ Becomes(i, StepCall(running[i]))

ConcurrentDecryptSettles ==
  \E i \in Slots : running[i].pc = "decrypt" /\ Becomes(i, StepCall(running[i]))

ConcurrentDigestResolves ==
  \E i \in Slots : running[i].pc = "digest" /\ Becomes(i, StepCall(running[i]))

ConcurrentSettledResumes ==
  \E i \in Slots : running[i].pc = "settled" /\ Becomes(i, StepCall(running[i]))

\* the caller of slot i has taken the outcome and may call again
ConcurrentTakeResult ==
  \E i \in Slots : running[i].pc = "done" /\ Becomes(i, [pc |-> "idle"])

NextConcurrent ==
  \/ ConcurrentTwoWayEncrypt
  \/ ConcurrentTwoWayDecrypt
  \/ ConcurrentOneWayEncrypt
  \/ ConcurrentOneWayCompare
  \/ ConcurrentImportKeyResolves
  \/ ConcurrentDeriveKeyResolves
  \/ ConcurrentEncryptResolves
  \/ ConcurrentDecryptSettles
  \/ ConcurrentDigestResolves
  \/ ConcurrentSettledResumes
  \/ ConcurrentTakeResult

SpecConcurrent == Init /\ [][NextConcurrent]_vars

-----------------------------------------------------------------------------
(* What the claims speak of *)

Finished(op) == call.pc = "done" /\ call.op = op
Resolved(v) == call.outcome = "fulfilled" /\ call.ret = v

\* a finished twoWayDecrypt of the record the caller kept, unchanged
DecryptedKept == Finished("twoWayDecrypt") /\ HasRecord /\ call.args[1] = store.ret
SamePassphrase == call.args[2] = store.args[2]
SameOptions == call.args[3] = store.args[3]

\* the data the round trip is claimed for, and its canonical text
JSONSerializable(data) ==
  \/ data.t = "string"
  \/ data.t = "number" /\ data.v.k = "int"
  \/ data.t = "object" /\ data.v.cls \in {"array", "plain"}

CanonicalText(data) ==
  CASE data.t = "string" -> data
    [] data.t = "number" -> Str(DecimalDigits(data.v.n))
    [] OTHER -> JSONstringify(data).v

\* the named levels of the specification and the count the options name:
\* a numeric iterations, else the count of a named level, else the default
LevelNames == {sFast, sStandard, sHigh, sMaximum}

NamedIterations(options) ==
  LET o == DefaultOptions(options) IN
  IF o.t # "options" THEN Integer(600000)
  ELSE IF o.v.iterations.t = "number" THEN o.v.iterations
  ELSE IF o.v.securityLevel.t = "string" /\ o.v.securityLevel.v \in LevelNames
    THEN SecurityLevelTable[o.v.securityLevel.v]
  ELSE Integer(600000)

\* absent or empty
Empty(x) == x \in {Undef, Null, Str(<<>>)}

\* a two-way call that resolved its iteration count and handed it to deriveKey
TwoWayResolved ==
  /\ call.pc # "idle"
  /\ call.op \in {"twoWayEncrypt", "twoWayDecrypt"}
  /\ call.loc.iterations # Undef

\* C1: decrypting the record of twoWayEncrypt(data, p, o) with the same p and o
\* returns the canonical text of data (the string itself, or its JSON text).
C1_RoundTrip ==
  (DecryptedKept /\ SamePassphrase /\ SameOptions /\ JSONSerializable(store.args[1]))
    => Resolved(CanonicalText(store.args[1]))

\* C2: decrypting a record with a passphrase different from the one it was
\* encrypted with returns null.
C2_WrongKeyRejected ==
  (DecryptedKept /\ ~SamePassphrase /\ SameOptions) => Resolved(Null)

\* a finished twoWayDecrypt, with the passphrase and options of the encryption,
\* of the kept record with exactly one character replaced
DecryptedTampered ==
  /\ Finished("twoWayDecrypt") /\ HasRecord /\ SamePassphrase /\ SameOptions
  /\ call.args[1].t = "string"
  /\ Len(call.args[1].v) = Len(store.ret.v)
  /\ Cardinality({i \in 1..Len(store.ret.v) : call.args[1].v[i] # store.ret.v[i]}) = 1

\* the one replacement is a letter by its upper-case form
OnlyCaseChanged ==
  \A i \in 1..Len(store.ret.v) : call.args[1].v[i] \in {store.ret.v[i], UpperCase(store.ret.v[i])}

\* C3 as claimed: replacing any single character of a record by a different
\* character makes twoWayDecrypt return null.
C3_AnyTamperRejected == DecryptedTampered => Resolved(Null)

\* C3 as amended: replacing any single character of a record by a different
\* character, other than a hexadecimal letter by its upper-case form, makes
\* twoWayDecrypt return null.
C3_TamperRejected == (DecryptedTampered /\ ~OnlyCaseChanged) => Resolved(Null)

\* a hexadecimal digit of the ciphertext was replaced by another one, and the
\* tag verification of the provider turned the record down
C3_Witness ==
  /\ DecryptedTampered /\ ~OnlyCaseChanged
  /\ \E i \in 89..Len(store.ret.v) :
       call.args[1].v[i] # store.ret.v[i] /\ IsHexChar(call.args[1].v[i])
  /\ call.prims = <<"importKey", "deriveKey", "decrypt">>
  /\ Resolved(Null)

\* C4: decrypting a record with the right passphrase but options that name
\* another iteration count than those of the encryption returns null.
C4_IterationMismatchRejected ==
  (DecryptedKept /\ SamePassphrase
     /\ NamedIterations(call.args[3]) # NamedIterations(store.args[3]))
    => Resolved(Null)

\* encrypted with `fast`, decrypted with `maximum`: the provider verified the
\* tag under the other key and turned the record down
C4_Witness ==
  /\ DecryptedKept /\ SamePassphrase
  /\ store.args[3] = Level(sFast) /\ call.args[3] = Level(sMaximum)
  /\ call.prims = <<"importKey", "deriveKey", "decrypt">>
  /\ Resolved(Null)

\* C5: the promise of a public operation is never rejected, whatever the
\* arguments.
C5_NeverRejects == call.pc = "done" => call.outcome = "fulfilled"

\* C6: without data (record) or passphrase, twoWayEncrypt and twoWayDecrypt
\* return null, and oneWayEncrypt without data returns undefined; none of them
\* draws random bytes or calls the provider.
C6_EmptyInputNoOp ==
  /\ ((Finished("twoWayEncrypt") \/ Finished("twoWayDecrypt"))
        /\ (Empty(call.args[1]) \/ Empty(call.args[2])))
       => (Resolved(Null) /\ call.prims = <<>> /\ call.rand = 0)
  /\ (Finished("oneWayEncrypt") /\ Empty(call.args[1]))
       => (Resolved(Undef) /\ call.prims = <<>> /\ call.rand = 0)

\* twoWayEncrypt of data with an empty passphrase has returned
C6_Witness ==
  /\ Finished("twoWayEncrypt")
  /\ call.args[1] = Str(sHi) /\ call.args[2] = Str(<<>>) /\ cryptoAvailable
  /\ Resolved(Null)

IsLowerHex(ch) == (ch >= 48 /\ ch <= 57) \/ (ch >= 97 /\ ch <= 102)

C8_ResolutionOrder == TwoWayResolved => call.loc.iterations = NamedIterations(call.args[3])

\* C9: with a securityLevel that is none of the four names (and no numeric
\* iterations) the count is 600000, as without options.
C9_UnknownLevelIsDefault ==
  (/\ TwoWayResolved
   /\ call.args[3].t = "options"
   /\ call.args[3].v.iterations.t # "number"
   /\ call.args[3].v.securityLevel.t = "string"
   /\ call.args[3].v.securityLevel.v \notin LevelNames)
    => call.loc.iterations = Integer(600000)

C11_FastIs2000 ==
  (TwoWayResolved /\ call.args[3] = Level(sFast)) => call.loc.iterations = Integer(2000)

\* twoWayDecrypt gave back a text
GaveText == call.outcome = "fulfilled" /\ call.ret.t = "string"

\* C12: a record encrypted under options O1 is decrypted with the right
\* passphrase under every options value O2 that names the same count.
C12_SameCountDecrypts ==
  (DecryptedKept /\ SamePassphrase /\ JSONSerializable(store.args[1])
     /\ call.args[3] # Null
     /\ NamedIterations(call.args[3]) = NamedIterations(store.args[3]))
    => GaveText

\* a finished oneWayCompare of the outcome of the oneWayEncrypt the caller
\* kept, with the data and the selector of that call
ComparedKept ==
  /\ Finished("oneWayCompare") /\ HasDigest
  /\ call.args = <<store.ret, store.args[1], store.args[2]>>

\* C14: oneWayCompare(oneWayEncrypt(x, s), x, s) is true for every x and s.
C14_HashCompareRoundTrip == ComparedKept => Resolved(Bool(TRUE))

C16_CompareIsBoolean ==
  Finished("oneWayCompare") => (call.outcome = "fulfilled" /\ call.ret.t = "boolean")

\* the algorithm `sha` selects, and the digest of a text under it
UsesSha(sha) == Truthy(IF sha.t = "undefined" THEN Bool(TRUE) ELSE sha)

DigestOfText(text, sha) ==
  IF UsesSha(sha)
  THEN Str(arrayBufferToHex(SubtleDigest(stringToArrayBuffer(text).v)))
  ELSE CryptoJSMD5(text.v).v

\* C17: oneWayEncrypt of an object or array is the digest of its JSON text,
\* and not undefined.
C17_HashesStructuredValues ==
  (/\ Finished("oneWayEncrypt")
   /\ call.args[1].t = "object" /\ call.args[1].v.cls \in {"array", "plain"}
   /\ (UsesSha(call.args[2]) => cryptoAvailable))
    => Resolved(DigestOfText(JSONstringify(call.args[1]).v, call.args[2]))

\* C18: for a non-empty text oneWayEncrypt returns the SHA-256 digest, 64
\* hexadecimal characters, when sha is true or omitted, and the MD5 digest,
\* 32 hexadecimal characters, when sha is false.
C18_AlgorithmSelection ==
  (/\ Finished("oneWayEncrypt")
   /\ call.args[1].t = "string" /\ call.args[1].v # <<>>
   /\ (UsesSha(call.args[2]) => cryptoAvailable))
    => /\ call.prims = IF call.args[2] \in {Undef, Bool(TRUE)} THEN <<"digest">> ELSE <<"MD5">>
       /\ Resolved(DigestOfText(call.args[1], call.args[2]))
       /\ Len(call.ret.v) = IF call.args[2] \in {Undef, Bool(TRUE)} THEN 64 ELSE 32
       /\ \A i \in 1..Len(call.ret.v) : IsLowerHex(call.ret.v[i])

\* a twoWayDecrypt that gave no plaintext
DecryptFailed == Finished("twoWayDecrypt") /\ call.loc.plaintext = Undef

\* C19: every twoWayDecrypt that fails, whatever the cause, resolves to null.
C19_FailuresAlike == DecryptFailed => Resolved(Null)

\* the tag check of the provider failed under a wrong passphrase
C19_Witness ==
  /\ DecryptFailed /\ DecryptedKept /\ ~SamePassphrase
  /\ call.prims = <<"importKey", "deriveKey", "decrypt">>
  /\ Resolved(Null)

\* two finished twoWayEncrypt calls of the same arguments that gave records
SameEncryption(i, j) ==
  /\ i # j
  /\ Finished_(i, "twoWayEncrypt") /\ Finished_(j, "twoWayEncrypt")
  /\ running[i].args = running[j].args
  /\ running[i].ret # Null /\ running[j].ret # Null

\* the random source gave the two calls different bytes
FreshDraws(i, j) ==
  <<running[i].loc.salt, running[i].loc.iv>> # <<running[j].loc.salt, running[j].loc.iv>>

\* slot k holds a finished twoWayDecrypt of the record of the finished
\* twoWayEncrypt in slot i, with its passphrase and options
DecryptionOf(k, i) ==
  /\ Finished_(k, "twoWayDecrypt") /\ Finished_(i, "twoWayEncrypt")
  /\ running[i].ret # Null
  /\ running[k].args = <<running[i].ret, running[i].args[2], running[i].args[3]>>

\* C13: two separate twoWayEncrypt calls of the same data, passphrase and
\* options, given fresh random bytes, return different records, and each
\* record decrypts to the plaintext.
C13_FreshRecords ==
  /\ \A i, j \in Slots :
       (SameEncryption(i, j) /\ FreshDraws(i, j)) => running[i].ret # running[j].ret
  /\ \A k, i \in Slots :
       DecryptionOf(k, i) =>
         (running[k].outcome = "fulfilled" /\ running[k].ret = running[i].loc.plaintext)

\* the bytes the random source gave to a call
DrawOf(c) ==
  IF c.op = "twoWayEncrypt" /\ c.rand > 0 THEN <<c.loc.salt, c.loc.iv>>
  ELSE CHOOSE d \in Draws : TRUE

RECURSIVE RunToEnd(_)
\* a call run from where it is to its end, nothing else running
RunToEnd(c) == IF c.pc = "done" THEN c ELSE RunToEnd(StepCall(c))

\* the call run alone with the arguments and the random bytes of c
RunAlone(c) ==
  RunToEnd(StartCall(c.op, c.args, SecurityLevelTable, cryptoAvailable, DrawOf(c)))

\* C20: however the steps of concurrent calls interleave, each call returns
\* what it returns when run alone with its arguments and its random bytes,
\* and no call changes the preset table the calls read.
C20_ConcurrentIndependence ==
  /\ SECURITY_LEVELS = SecurityLevelTable
  /\ \A i \in Slots :
       running[i].pc = "done" =>
         LET alone == RunAlone(running[i]) IN
         /\ running[i].ret = alone.ret
         /\ running[i].outcome = alone.outcome

\* a twoWayEncrypt has returned its record while a twoWayEncrypt of the same
\* arguments that was given other random bytes is suspended in deriveKey
C20_Witness ==
  \E i, j \in Slots :
    /\ Finished_(i, "twoWayEncrypt") /\ running[i].ret # Null
    /\ running[j].pc = "deriveKey" /\ running[j].op = "twoWayEncrypt"
    /\ running[j].args = running[i].args
    /\ running[j].loc.salt # running[i].loc.salt

-----------------------------------------------------------------------------
(* A caller that writes to what it shares with the module: the exported     *)
(* SECURITY_LEVELS object (index.js:19-24 and 205 hand out the object       *)
(* itself, not a copy, and nothing freezes it), and the data and options    *)
(* objects it passed to a call that is suspended.                           *)

AwaitPoints == {"importKey", "deriveKey", "encrypt", "decrypt", "digest", "settled"}

\* SECURITY_LEVELS.fast = n, by a module that imported the table
CallerWritesLevel ==
  /\ \E n \in {1, 1000} : SECURITY_LEVELS' = [SECURITY_LEVELS EXCEPT ![sFast] = Integer(n)]
  /\ SECURITY_LEVELS' # SECURITY_LEVELS
  /\ UNCHANGED <<call, store, cryptoAvailable, running>>

\* the object passed as data gets other contents while the call is suspended
CallerChangesData ==
  /\ call.pc \in AwaitPoints
  /\ call.args[1].t = "object"
  /\ \E d \in {Obj("plain", <<3>>), Obj("circular", <<>>)} :
       /\ d # call.args[1]
       /\ call' = [call EXCEPT !.args[1] = d]
  /\ UNCHANGED <<store, SECURITY_LEVELS, cryptoAvailable, running>>

\* the object passed as options gets other properties while the call is suspended
CallerChangesOptions ==
  /\ call.pc \in AwaitPoints
  /\ call.op \in {"twoWayEncrypt", "twoWayDecrypt"}
  /\ call.args[3].t = "options"
  /\ \E o \in {Level(sMaximum), Iterations(5000)} :
       /\ o # call.args[3]
       /\ call' = [call EXCEPT !.args[3] = o]
  /\ UNCHANGED <<store, SECURITY_LEVELS, cryptoAvailable, running>>

\* the kept record decrypted with the passphrase of its encryption
CallerDecryptArguments ==
  IF ~HasRecord THEN {}
  ELSE { <<store.ret, store.args[2], o>> : o \in {Level(sFast), Iterations(5000)} }

NextCaller ==
  \/ InvokeTwoWayEncrypt({Obj("plain", <<1, 2>>)}, {Str(sPw), Integer(7)},
                         {Level(sFast), Iterations(5000)})
  \/ InvokeTwoWayDecrypt(CallerDecryptArguments)
  \/ ImportKeyResolves
  \/ DeriveKeyResolves
  \/ EncryptResolves
  \/ DecryptSettles
  \/ SettledResumes
  \/ TakeResult
  \/ Forget
  \/ CallerWritesLevel
  \/ CallerChangesData
  \/ CallerChangesOptions

SpecCaller == Init /\ [][NextCaller]_vars

\* a two-way call is made (it runs to its first await, or to its end)
TwoWayInvoked ==
  /\ call.pc = "idle" /\ call'.pc # "idle"
  /\ call'.op \in {"twoWayEncrypt", "twoWayDecrypt"}

\* C21: the security-level table has the values of the module's source in
\* every reachable state, whatever a caller of the exported API does, and
\* every call resolves for its options the count that table gives.
C21_NoMutableGlobalState ==
  /\ [](SECURITY_LEVELS = SecurityLevelTable)
  /\ [][(TwoWayInvoked /\ call'.loc.iterations # Undef) =>
          call'.loc.iterations
            = ResolveIterations(DefaultOptions(call'.args[3]), SecurityLevelTable).v]_vars

\* C29: when twoWayEncrypt is suspended it has read the options and the
\* table, serialized the data and drawn salt and IV, and when twoWayDecrypt
\* is suspended it has read the options and parsed the record; a change the
\* caller makes to the data or options object of a suspended call changes
\* neither what the call returns nor how it settles.
C29_SnapshotBeforeAwait ==
  /\ []((call.pc \in AwaitPoints \ {"settled"} /\ call.op = "twoWayEncrypt") =>
          /\ call.loc.iterations.t = "number" /\ call.loc.plaintext # Undef
          /\ Len(call.loc.salt) = SALT_SIZE /\ Len(call.loc.iv) = IV_SIZE
          /\ call.rand = SALT_SIZE + IV_SIZE)
  /\ []((call.pc \in AwaitPoints \ {"settled"} /\ call.op = "twoWayDecrypt") =>
          /\ call.loc.iterations.t = "number"
          /\ Len(call.loc.salt) = SALT_SIZE /\ Len(call.loc.authTag) = TAG_SIZE)
  /\ [][(call.pc \in AwaitPoints /\ call'.pc = call.pc /\ call'.args # call.args) =>
          /\ RunToEnd(call').ret = RunToEnd(call).ret
          /\ RunToEnd(call').outcome = RunToEnd(call).outcome]_vars

\* a twoWayEncrypt has returned a record made with the count its options
\* named when it was called, and the options object now names another count
C29_Witness ==
  /\ Finished("twoWayEncrypt") /\ call.ret.t = "string"
  /\ call.args[3].t = "options"
  /\ ResolveIterations(call.args[3], SECURITY_LEVELS).v # call.loc.iterations
  /\ SECURITY_LEVELS = SecurityLevelTable

-----------------------------------------------------------------------------
(* Progress.  A continuation runs when the promise it awaits has settled:   *)
(* the provider completes or fails every call made of it, and the job queue *)
(* of the engine runs every continuation that is ready.  Weak fairness of   *)
(* the resumption says so; nothing is assumed of the caller.                *)

NextFair ==
  \/ InvokeTwoWayEncrypt({Str(sHi), Str(<<BOM>>), Obj("toJSONThrowsNull", <<>>)},
                         {Str(sPw), Integer(7)}, {Level(sFast), Iterations(0)})
  \/ InvokeTwoWayDecrypt(CallerDecryptArguments)
  \/ InvokeOneWayEncrypt({Str(sHi), Integer(5), Str(sHighSurrogate)}, ShaValues)
  \/ InvokeOneWayCompare(HashValues, {Str(sHi), Integer(5)}, ShaValues)
  \/ ImportKeyResolves
  \/ DeriveKeyResolves
  \/ EncryptResolves
  \/ DecryptSettles
  \/ DigestResolves
  \/ SettledResumes
  \/ TakeResult
  \/ Forget

SpecFair == Init /\ [][NextFair]_vars /\ WF_vars(Resume)

\* C22: every invocation that is suspended is eventually settled, no step
\* takes a suspended invocation away before it is settled, and an invocation
\* settles with a value: its result or its sentinel.
C22_RunToCompletion ==
  /\ (call.pc \in AwaitPoints) ~> (call.pc = "done")
  /\ [][call.pc \in AwaitPoints => call'.pc \in AwaitPoints \cup {"done"}]_vars
  /\ [](call.pc = "done" => call.outcome = "fulfilled")

-----------------------------------------------------------------------------
\* a twoWayEncrypt that went past objToString and the encoder to draw its salt
Coerced == call.pc # "idle" /\ call.op = "twoWayEncrypt" /\ call.rand > 0

\* C23: for every non-empty data value, objToString gives twoWayEncrypt a
\* text: the string itself for a string, the JSON serialization for any
\* other value, so that the encoder is only ever handed text; and it gives
\* one for every such value (a call with a usable passphrase, options and
\* provider gets as far as encoding and drawing its salt).
C23_CoercionGivesText ==
  /\ Coerced =>
       /\ call.loc.plaintext.t = "string"
       /\ call.loc.plaintext = CanonicalText(call.args[1])
  /\ ( /\ Finished("twoWayEncrypt")
       /\ Truthy(call.args[1]) /\ Truthy(call.args[2])
       /\ call.args[3] # Null /\ cryptoAvailable ) => Coerced

-----------------------------------------------------------------------------
\* slot i holds a twoWayEncrypt that has its key: it is about to encrypt, or has
HasKey(i) ==
  /\ running[i].pc \in {"encrypt", "done"} /\ running[i].op = "twoWayEncrypt"
  /\ running[i].loc.key # <<>>

KeyAndIV(i) == <<running[i].loc.key, running[i].loc.iv>>

\* each twoWayEncrypt draws 16 bytes of salt and 12 bytes of IV from the
\* random source, before anything else it asks of the provider, and derives
\* its key with that salt
DrawsSaltAndIV ==
  \A i \in Slots :
    (running[i].pc # "idle" /\ running[i].op = "twoWayEncrypt" /\ running[i].rand > 0) =>
      /\ <<running[i].loc.salt, running[i].loc.iv>> \in Draws
      /\ Len(running[i].loc.salt) = 16 /\ Len(running[i].loc.iv) = 12
      /\ running[i].rand = 28
      /\ SubSeq(running[i].prims, 1, 2) = <<"getRandomValues", "getRandomValues">>
      /\ HasKey(i) => running[i].loc.key.salt = running[i].loc.salt

-----------------------------------------------------------------------------
\* the fields of a record, by position (index.js:158-161)
Fields(r) ==
  <<Substring(r, 0, 32), Substring(r, 32, 56), Substring(r, 56, 88), Substring(r, 88, Len(r))>>

HexDigits(f) == SelectSeq(f, IsHexChar)

\* a record of invalid structure: shorter than its 88-character header, or
\* with a field that does not hold the hexadecimal digits of its bytes (16,
\* 12, 16 and any whole number), or with a character that is no such digit
InvalidStructure(r) ==
  \/ Len(r) < 88
  \/ \E i \in 1..Len(r) : ~IsHexChar(r[i])
  \/ Len(HexDigits(Fields(r)[1])) # 32
  \/ Len(HexDigits(Fields(r)[2])) # 24
  \/ Len(HexDigits(Fields(r)[3])) # 32
  \/ Len(HexDigits(Fields(r)[4])) % 2 = 1

\* C25: twoWayDecrypt returns null for every record of invalid structure
\* (too short, a field of the wrong length, a character that is not a
\* hexadecimal digit).
C25_FailClosedOnStructure ==
  (Finished("twoWayDecrypt") /\ call.args[1].t = "string" /\ InvalidStructure(call.args[1].v))
    => Resolved(Null)

-----------------------------------------------------------------------------
(* crypto-utils.js called on its own: the conversions, which return or      *)
(* throw at once, and deriveKey, which is suspended twice.                  *)

Bytes(b) == [t |-> "Uint8Array", v |-> b]
Buffer(b) == [t |-> "ArrayBuffer", v |-> b]
CryptoKey(k) == [t |-> "CryptoKey", v |-> k]

\* a function that is not async throws to its caller
Throws(c, e) == [c EXCEPT !.pc = "done", !.outcome = "threw", !.ret = e]

\* an async function that throws rejects its promise
Rejects(c, e) == [c EXCEPT !.pc = "done", !.outcome = "rejected", !.ret = e]

\* a conversion called with x: it returns a buffer or a string, or throws
Converted(op, x, r) ==
  IF ~r.ok THEN Throws(NewCall(op, <<x>>), r.v)
  ELSE Return(NewCall(op, <<x>>), IF op \in {"hexToArrayBuffer", "stringToArrayBuffer"}
                                  THEN Buffer(r.v) ELSE Str(r.v))

\* crypto-utils.js:125-147: deriveKey(passphrase, salt, iterations = 600000)
\* up to its first await; a salt that is no Uint8Array fails the test of 130
deriveKeyInvoked(c, avail) ==
  LET passphrase == c.args[1]
      salt == IF c.args[2].t = "Uint8Array" THEN c.args[2].v ELSE <<>>
      iterations == IF c.args[3] = Undef THEN Integer(600000) ELSE c.args[3]
      d == deriveKeyStart(passphrase, salt, iterations, avail)
  IN IF ~d.ok THEN Rejects(c, d.v)
     ELSE AwaitPrimitive([c EXCEPT !.loc.passphraseBuffer = d.v, !.loc.salt = salt,
                                   !.loc.iterations = iterations], "importKey")

\* crypto-utils.js:150-166: deriveKey returns the derived key
deriveKeyReturns(c) ==
  LET key == deriveKeyDerived(c.loc.material, c.loc.salt, c.loc.iterations.v.n)
  IN Return([c EXCEPT !.loc.key = key], CryptoKey(key))

MaxHexLen == 3
HexAlphabet == {48, 97, 70, 103, 32}          \* 0 a F g space

\* every string over S of at most n characters
StringsOver(S, n) == UNION { [1..k -> S] : k \in 0..n }

HexInputs == { Str(h) : h \in StringsOver(HexAlphabet, MaxHexLen) } \cup {Undef, Integer(5)}
ByteInputs == StringsOver({0, 10, 171, 239, 255}, 2) \cup {<<239, 187, 191, 104>>}
TextInputs == { Str(<<>>), Str(sHi), Str(sBomH), Str(sHighSurrogate), Str(<<233, 8364>>) }

SaltInputs ==
  { Bytes(RandomBytes(1, 16)), Bytes(RandomBytes(2, 16)), Bytes(RandomBytes(1, 15)),
    Bytes(RandomBytes(1, 17)), Bytes(<<>>), Buffer(RandomBytes(1, 16)), Undef }
IterationInputs ==
  { Undef, Integer(1), Integer(1000), Integer(0), Integer(-1), Num("frac", 1),
    Num("nan", 0), Str(s5000), Null }
PassphraseInputs == { Str(sPw), Str(sHi), Str(<<>>), Integer(7), Undef, Null }

CallHexToArrayBuffer ==
  /\ Idle
  /\ \E hex \in HexInputs : call' = Converted("hexToArrayBuffer", hex, hexToArrayBuffer(hex))
  /\ UNCHANGED <<store, SECURITY_LEVELS, cryptoAvailable, running>>

CallArrayBufferToHex ==
  /\ Idle
  /\ \E b \in ByteInputs :
       call' = Converted("arrayBufferToHex", Buffer(b), Ok(arrayBufferToHex(b)))
  /\ UNCHANGED <<store, SECURITY_LEVELS, cryptoAvailable, running>>

CallStringToArrayBuffer ==
  /\ Idle
  /\ \E str \in TextInputs :
       call' = Converted("stringToArrayBuffer", str, stringToArrayBuffer(str))
  /\ UNCHANGED <<store, SECURITY_LEVELS, cryptoAvailable, running>>

CallArrayBufferToString ==
  /\ Idle
  /\ \E b \in ByteInputs :
       call' = Converted("arrayBufferToString", Buffer(b), Ok(arrayBufferToString(b)))
  /\ UNCHANGED <<store, SECURITY_LEVELS, cryptoAvailable, running>>

CallDeriveKey ==
  /\ Idle
  /\ \E passphrase \in PassphraseInputs, salt \in SaltInputs, iterations \in IterationInputs :
       call' = deriveKeyInvoked(NewCall("deriveKey", <<passphrase, salt, iterations>>),
                                cryptoAvailable)
  /\ UNCHANGED <<store, SECURITY_LEVELS, cryptoAvailable, running>>

DeriveKeyReturns ==
  /\ call.pc = "deriveKey"
  /\ call' = deriveKeyReturns(call)
  /\ UNCHANGED <<store, SECURITY_LEVELS, cryptoAvailable, running>>

NextUtils ==
  \/ CallHexToArrayBuffer
  \/ CallArrayBufferToHex
  \/ CallStringToArrayBuffer
  \/ CallArrayBufferToString
  \/ CallDeriveKey
  \/ ImportKeyResolves
  \/ DeriveKeyReturns
  \/ TakeResult

SpecUtils == Init /\ [][NextUtils]_vars

\* the arguments deriveKey accepts
ValidPassphrase(x) == x.t = "string" /\ x.v # <<>>
ValidSalt(x) == x.t = "Uint8Array" /\ Len(x.v) = 16
ValidIterations(x) == x = Undef \/ (x.t = "number" /\ x.v.k = "int" /\ x.v.n >= 1)

\* C26: deriveKey fails when the passphrase is not non-empty text, when the
\* salt is not exactly 16 bytes or when iterations is not a positive integer,
\* before it has made any call of the provider; for valid arguments the key
\* it returns is determined by passphrase, salt and iterations alone.
C26_DeriveKeyValidates ==
  (call.pc # "idle" /\ call.op = "deriveKey") =>
    LET passphrase == call.args[1]
        salt == call.args[2]
        iterations == call.args[3]
    IN
    IF ValidPassphrase(passphrase) /\ ValidSalt(salt) /\ ValidIterations(iterations)
    THEN (call.pc = "done" /\ cryptoAvailable) =>
           /\ call.outcome = "fulfilled"
           /\ call.ret = CryptoKey(SubtleDeriveKey(
                           SubtleImportKey(stringToArrayBuffer(passphrase).v), salt.v,
                           IF iterations = Undef THEN 600000 ELSE iterations.v.n))
    ELSE call.pc = "done" /\ call.outcome = "rejected" /\ call.prims = <<>>

\* deriveKey has rejected a call whose only flaw is a salt of 15 bytes,
\* having made no call of the provider
C26_Witness ==
  /\ Finished("deriveKey") /\ call.outcome = "rejected" /\ call.prims = <<>>
  /\ ValidPassphrase(call.args[1]) /\ ValidIterations(call.args[3])
  /\ call.args[2].t = "Uint8Array" /\ Len(call.args[2].v) = 15
  /\ cryptoAvailable

\* C30: hexToArrayBuffer throws on every input of odd length and on every
\* input with a character that is not a hexadecimal digit, and otherwise
\* returns the bytes whose hex encoding is the input; no other conversion
\* between bytes, hex and strings throws.
C30_HexToArrayBufferStrict ==
  /\ (Finished("hexToArrayBuffer") /\ call.args[1].t = "string") =>
       LET hex == call.args[1].v IN
       IF Len(hex) % 2 = 1 \/ \E i \in 1..Len(hex) : ~IsHexChar(hex[i])
       THEN call.outcome = "threw"
       ELSE call.outcome = "fulfilled" /\ arrayBufferToHex(call.ret.v) = hex
  /\ (call.pc = "done"
        /\ call.op \in {"arrayBufferToHex", "stringToArrayBuffer", "arrayBufferToString"})
       => call.outcome = "fulfilled"

-----------------------------------------------------------------------------
\* a number that deriveKey does not take as an iteration count
NotPositiveInteger(x) == x.t = "number" /\ ~(x.v.k = "int" /\ x.v.n >= 1)

\* a finished two-way call that had data and passphrase and whose options
\* held a numeric iterations that is no positive integer
InvalidOverride ==
  /\ call.pc = "done" /\ call.op \in {"twoWayEncrypt", "twoWayDecrypt"}
  /\ ~NothingToDo(call.args[1], call.args[2])
  /\ call.args[3].t = "options"
  /\ NotPositiveInteger(call.args[3].v.iterations)

\* C27: a numeric options.iterations that is not a positive integer (0,
\* negative, fractional, NaN) is still the count the call resolves: the call
\* returns null without deriving a key, and falls back neither to
\* options.securityLevel nor to the default count.
C27_InvalidOverrideIsNull ==
  InvalidOverride =>
    /\ Resolved(Null)
    /\ call.loc.iterations \in {Undef, call.args[3].v.iterations}
    /\ \A i \in 1..Len(call.prims) : call.prims[i] # "importKey"

-----------------------------------------------------------------------------
\* the finished twoWayDecrypt was handed a record whose tag is the tag of its
\* ciphertext under the key it derived
Authenticated ==
  /\ Finished("twoWayDecrypt") /\ call.loc.key # <<>>
  /\ SubtleDecrypt(call.loc.key, call.loc.iv, call.loc.ciphertext \o call.loc.authTag).ok

\* the text the authenticated record holds
DecodedText ==
  arrayBufferToString(
    SubtleDecrypt(call.loc.key, call.loc.iv, call.loc.ciphertext \o call.loc.authTag).v)

\* C28: twoWayDecrypt returns null or a non-empty string, never the empty
\* string: a record that authenticates and whose decoded text is empty gives
\* null, and any other record that authenticates gives its decoded text.
C28_NeverEmptyString ==
  /\ Finished("twoWayDecrypt") =>
       /\ call.outcome = "fulfilled"
       /\ call.ret = Null \/ (call.ret.t = "string" /\ call.ret.v # <<>>)
  /\ Authenticated =>
       call.ret = (IF DecodedText = <<>> THEN Null ELSE Str(DecodedText))

\* the record of the text U+FEFF was decrypted with the passphrase and options of
\* its encryption: it authenticated, its text decoded to nothing, and
\* twoWayDecrypt returned null
C28_Witness ==
  /\ DecryptedKept /\ SamePassphrase /\ SameOptions
  /\ store.args[1] = Str(<<BOM>>)
  /\ Authenticated /\ DecodedText = <<>>
  /\ Resolved(Null)
====
